---- MODULE Spec2Model ----
(***************************************************************************)
(* Pear Protocol authentication session, trading gateway and agent         *)
(* approval steps of nikolasss4/amazing_project, as a state machine.       *)
(*                                                                         *)
(* The backend runs on one asyncio event loop: a coroutine runs atomically *)
(* from one await of real I/O to the next.  Every caller below is one      *)
(* coroutine (or one script run); an action is the code executed between   *)
(* two suspension points.  The remote services (Pear API, Hyperliquid)     *)
(* answer inside the action that resumes the waiting caller.               *)
(***************************************************************************)
EXTENDS Integers, Sequences, FiniteSets, TLC

(* ----------------------------- bounds --------------------------------- *)
NumCallers == 2
MaxChallenges == 2
MaxTokens == 2

NumRuns == 2
MaxWallets == 2
MaxFriendRows == 3
MaxTime == 600

Callers == 1..NumCallers
Runs == 1..NumRuns

(* --------------------------- value domains ----------------------------- *)
\* wallet addresses and the private keys that control them
Addrs == {"A", "B"}
Keys == {"kA", "kB"}
AddrOf(k) == IF k = "kA" THEN "A" ELSE IF k = "kB" THEN "B" ELSE "none"
KeyOf(a) == IF a = "A" THEN "kA" ELSE IF a = "B" THEN "kB" ELSE "none"

NoChallenge == [address |-> "none", timestamp |-> 0]
NoSig == [signer |-> "none", msg |-> NoChallenge]
NoToken == [address |-> "none", n |-> 0]
NoHeader == [scheme |-> "none", token |-> NoToken]
\* maker: the caller whose _refresh_client made the client (0: nobody);
\* closed: aclose() has been called on it
NoClient == [open |-> FALSE, headers |-> NoHeader, maker |-> 0, closed |-> FALSE]
NoError == [kind |-> "none", service |-> "none", prefix |-> "none", raw |-> "none"]

\* ExternalServiceError(service, message): message is prefix + raw text
ExternalServiceError(service, prefix, raw) ==
    [kind |-> "ExternalServiceError", service |-> service, prefix |-> prefix, raw |-> raw]

\* text of an upstream failure: the response body of a non-2xx answer, or
\* str(e) of a transport error (status 0)
RawText(status) ==
    CASE status = 0 -> "connect error"
      [] status = 401 -> "unauthorized"
      [] status = 404 -> "not found"
      [] OTHER -> "server error"

Terminal == {"returned", "raised"}

\* AgentWalletStatus of app.trade.schemas
AgentWalletStatus == {"NOT_FOUND", "PENDING_APPROVAL", "ACTIVE", "EXPIRED"}

\* authenticated Pear API endpoints PearService calls through _request: one
\* read (get_agent_wallet) and the two trade-placing calls
Endpoints == {"GET /agentWallet", "POST /pairs/trades", "POST /buckets/strategies"}
TradeEndpoints == {"POST /pairs/trades", "POST /buckets/strategies", "POST /positions"}

VARIABLES
    access_token,   \* PearAuthService._access_token (NoToken = None)
    private_key,    \* PearAuthService.private_key ("none" = not configured)
    client,         \* PearService._client
    issued,         \* Pear API: challenges handed out
    tokens,         \* Pear API: access tokens handed out
    agentStatus,    \* Pear API: status of the agent wallet
    pc,             \* per caller: suspension point
    op,             \* per caller: the operation it runs
    arg,            \* per caller: the operation's inputs
    loc,            \* per caller: locals and the log of its outbound steps
    extraAgents,    \* Hyperliquid: agent addresses approved for the user
    maxBuilderFee,  \* Hyperliquid: max fee the user approved for the Pear builder
    hpc,            \* per setup-script run: suspension point
    hloc,           \* per setup-script run: locals and the log of its steps
    wallet,         \* Pear API: the session's agent wallet
    fpc,            \* per setup-flow run: the step the flow is at
    floc,           \* per setup-flow run: locals, the log of its steps, its report
    http,           \* the answer of Pear to GET /agentWallet
    gw,             \* what get_agent_wallet made of it
    eip712_data,    \* the caller's challenge object
    sg,             \* the signing call made on it and its outcome
    rq,             \* an HTTP request to a Pear endpoint of the backend
    rs,             \* the response the HTTP layer gives to it
    friends,        \* the friends table: its rows
    friend_seq,     \* the friends table: ids given out so far
    fr,             \* the last friends request handled and its answer
    now,            \* datetime.utcnow(), in seconds
    _instruments_cache,\* router_instruments._instruments_cache
    ir              \* the last instruments request handled: what it saw and did

pearVars == <<access_token, private_key, client, issued, tokens, agentStatus,
              pc, op, arg, loc>>
hlVars == <<extraAgents, maxBuilderFee, hpc, hloc>>
setupVars == <<wallet, fpc, floc>>
walletVars == <<http, gw>>
signVars == <<eip712_data, sg>>
routerVars == <<rq, rs>>
friendVars == <<friends, friend_seq, fr>>
cacheVars == <<now, _instruments_cache, ir>>
pureVars == <<walletVars, signVars, routerVars, friendVars, cacheVars>>
auxVars == <<setupVars, pureVars>>
\* everything a get_agent_wallet call / a signing call leaves alone
notWallet == <<pearVars, hlVars, setupVars, signVars, routerVars, friendVars, cacheVars>>
notSign == <<pearVars, hlVars, setupVars, walletVars, routerVars, friendVars, cacheVars>>
notRouter == <<pearVars, hlVars, setupVars, walletVars, signVars, friendVars, cacheVars>>
notFriends == <<pearVars, hlVars, setupVars, walletVars, signVars, routerVars, cacheVars>>
notCache == <<pearVars, hlVars, setupVars, walletVars, signVars, routerVars, friendVars>>
vars == <<pearVars, hlVars, auxVars>>

NoArg ==
    [address |-> "none", signature |-> NoSig, timestamp |-> 0, key |-> "none",
     endpoint |-> "none", authorization |-> NoToken]

LocInit ==
    [stage |-> "none", addr |-> "none", chal |-> NoChallenge, sig |-> NoSig, ts |-> 0,
     steps |-> <<>>, postedTs |-> 0, stored |-> FALSE, rejected |-> FALSE,
     sessAtStart |-> NoToken, sessAtRaise |-> NoToken, ensured |-> FALSE, hdr |-> NoHeader,
     sessAtSend |-> NoToken,
     status |-> -1, ret |-> NoToken, err |-> NoError]

\* agent addresses as Pear reports them (checksum case) and as Hyperliquid
\* lists them (lower case)
AgentAddrs == {"0xab", "0xAB", "0xcd"}
Lower(a) == IF a = "0xAB" THEN "0xab" ELSE a

\* the answer of the maxBuilderFee query when nothing is approved, and
\* MAX_FEE_RATE of the setup scripts
NoFee == "0"
MAX_FEE_RATE == "0.1%"
\* PEAR_BUILDER_MAX_FEE_RATE of HyperliquidService
PEAR_BUILDER_MAX_FEE_RATE == "1%"

HLocInit ==
    [script |-> "none", agent |-> "none", steps |-> <<>>, queried |-> FALSE,
     listed |-> FALSE, exact |-> FALSE, feeSeen |-> "none", result |-> "none"]

Count(s, x) == Cardinality({i \in 1..Len(s) : s[i] = x})

\* the setup flows: main() of the two scripts, setup_pear_protocol, and the
\* router's setup-agent-wallet and agent-wallet endpoints
ScriptFlows == {"pear_setup", "setup_pear_complete"}
NoWallet == [address |-> "none", status |-> "NOT_FOUND", created |-> 0]
NoReport ==
    [builder_fee_approved |-> FALSE, agent_wallet_approved |-> FALSE,
     success |-> FALSE, errors |-> 0, steps |-> <<>>, status |-> "none",
     agent_wallet_address |-> "none", http |-> 0]
FLocInit ==
    [flow |-> "none", steps |-> <<>>, agent |-> "none",
     agentOk |-> FALSE, feeOk |-> FALSE, status |-> "none",
     existing |-> "none", created |-> 0, report |-> NoReport]
\* eip712_data: which of its keys are present, and their values; types maps
\* a type name to its field list
NoData ==
    [present |-> {}, domain |-> "none", types |-> <<>>, message |-> [timestamp |-> 0]]
\* what encode_typed_data was handed
NoHanded ==
    [domain_data |-> "none", message_types |-> <<>>, message_data |-> [timestamp |-> 0]]
NoOutcome ==
    [raised |-> "none", encoded |-> FALSE, handed |-> NoHanded,
     signature |-> [signer |-> "none", over |-> NoHanded], timestamp |-> 0]
NoSign ==
    [op |-> "none", key |-> "none", orig |-> NoData, key0 |-> "none",
     token0 |-> NoToken, out |-> NoOutcome]
SignIdle == eip712_data = NoData /\ sg = NoSign

\* before get_agent_wallet is called: no answer yet, nothing returned
NoHttp == [status_code |-> 0, body |-> "empty", json |-> <<>>, text |-> ""]
NoResult ==
    [called |-> FALSE,
     result |-> [raised |-> FALSE, agentWalletAddress |-> "none",
                 agentAddress |-> "none", address |-> "none", status |-> "none"]]
WalletIdle == http = NoHttp /\ gw = NoResult
SetupIdle ==
    /\ wallet = NoWallet
    /\ fpc = [r \in Runs |-> "idle"]
    /\ floc = [r \in Runs |-> FLocInit]
\* an HTTP request to a Pear endpoint of the backend before it is handled
NoRequest == [endpoint |-> "none", bearer |-> "none", failure |-> "none"]
\* status code, the keys of the JSON body, the body's "status" entry, whether
\* the service method was called, whether an approval went to Hyperliquid
NoResponse ==
    [handled |-> FALSE, status |-> 0, keys |-> {}, answer |-> "none",
     called |-> FALSE, submitted |-> FALSE]
RouterIdle == rq = NoRequest /\ rs = NoResponse
\* before any friends endpoint is called: an empty table, nothing answered
NoFriendAnswer == [op |-> "none", user |-> "none", target |-> "none", id |-> 0, status |-> 0]
FriendsIdle == friends = {} /\ friend_seq = 0 /\ fr = NoFriendAnswer
\* before any instruments endpoint is called: an empty cache
InstrumentSources == {"hyperliquid", "pear"}
NoEntry == [present |-> FALSE, instruments |-> <<>>, cached_at |-> 0]
NoSeen == [asked |-> FALSE, had |-> FALSE, age |-> 0, fetched |-> FALSE]
NoInstrumentsAnswer ==
    [op |-> "none", at |-> 0, seen |-> [s \in InstrumentSources |-> NoSeen]]
CacheIdle ==
    /\ now = 0
    /\ _instruments_cache = [s \in InstrumentSources |-> NoEntry]
    /\ ir = NoInstrumentsAnswer
AuxInit == SetupIdle /\ WalletIdle /\ SignIdle /\ RouterIdle /\ FriendsIdle /\ CacheIdle

(* ------------------------- PearAuthService ----------------------------- *)
\* wallet_address property: derived from the configured private key
wallet_address == AddrOf(private_key)

\* the EIP-712 signature of a challenge: who signed which message
SignTyped(key, chal) == [signer |-> AddrOf(key), msg |-> chal]

\* sign_eip712_message_with_key: (signature, message.timestamp); every
\* challenge the Pear API hands out carries a timestamp (>= 1)
sign_eip712_message_with_key(chal, key) == <<SignTyped(key, chal), chal.timestamp>>

\* faulty variant of sign_eip712_message: returns a timestamp of its own
\* instead of the signed message's
sign_eip712_message_stale(chal) == <<SignTyped(private_key, chal), chal.timestamp + 1>>

\* sign_eip712_message: the same under the configured key
sign_eip712_message(chal) == sign_eip712_message_with_key(chal, private_key)

\* get_auth_headers: Authorization only when a token is stored
get_auth_headers(tok) ==
    IF tok # NoToken THEN [scheme |-> "Bearer", token |-> tok] ELSE NoHeader

\* the locals of a caller that starts an operation now
Begin(p) ==
    [LocInit EXCEPT !.sessAtStart = access_token]

\* the call ends with an exception; the authenticate-wallet endpoint catches
\* every exception and answers with a failure body instead
Fail(p, o, l, e) ==
    /\ pc' = [pc EXCEPT ![p] = IF o = "authenticate_wallet" THEN "returned" ELSE "raised"]
    /\ loc' = [loc EXCEPT ![p] = [l EXCEPT !.err = e, !.sessAtRaise = access_token]]
    /\ client' = client

Return(p, l, tok) ==
    /\ pc' = [pc EXCEPT ![p] = "returned"]
    /\ loc' = [loc EXCEPT ![p] = [l EXCEPT !.ret = tok]]
    /\ client' = client

\* get_eip712_message up to its GET /auth/eip712-message
get_eip712_message(p, o, l, address, stage) ==
    LET a == IF address # "none" THEN address ELSE wallet_address IN
    IF a = "none"
    THEN Fail(p, o, l, ExternalServiceError("Pear Protocol", "", "No wallet address available"))
    ELSE /\ pc' = [pc EXCEPT ![p] = "fetch_wait"]
         /\ loc' = [loc EXCEPT ![p] = [l EXCEPT !.stage = stage, !.addr = a,
                                                !.steps = Append(l.steps, "fetch")]]
         /\ client' = client

\* login from the payload on: POST /auth/login
PostLogin(p, o, l, a, signature, timestamp) ==
    /\ pc' = [pc EXCEPT ![p] = "login_wait"]
    /\ loc' = [loc EXCEPT ![p] = [l EXCEPT !.addr = a, !.sig = signature, !.ts = timestamp,
                                           !.postedTs = timestamp,
                                           !.steps = Append(l.steps, "post")]]
    /\ client' = client

\* login up to its first await
login(p, o, l, address, signature, timestamp) ==
    LET a == IF address # "none" THEN address ELSE wallet_address IN
    IF a = "none"
    THEN Fail(p, o, l, ExternalServiceError("Pear Protocol", "", "No wallet address available"))
    ELSE IF signature = NoSig \/ timestamp = 0
         THEN get_eip712_message(p, o, l, a, "login")
         ELSE PostLogin(p, o, l, a, signature, timestamp)

\* authenticate up to its first await
authenticate(p, o, l) ==
    IF private_key = "none"
    THEN Fail(p, o, l, ExternalServiceError("Pear Protocol", "", "WALLET_PRIVATE_KEY not configured"))
    ELSE get_eip712_message(p, o, l, "none", "authenticate")

(* ---------------------------- PearService ------------------------------ *)
\* _request from the new client on: the request leaves with the client's
\* headers; every other caller of _refresh_client returns
NewClient(p, o, l, tok) ==
    /\ client' = [open |-> TRUE, headers |-> get_auth_headers(tok), maker |-> p,
                  closed |-> FALSE]
    /\ IF o = "_request"
       THEN /\ pc' = [pc EXCEPT ![p] = "http_wait"]
            /\ loc' = [loc EXCEPT ![p] =
                         [l EXCEPT !.hdr = get_auth_headers(tok), !.sessAtSend = tok,
                                   !.steps = Append(l.steps, "send")]]
       ELSE /\ pc' = [pc EXCEPT ![p] = "returned"]
            /\ loc' = [loc EXCEPT ![p] = l]

\* _refresh_client: an existing client is closed first (an await)
_refresh_client(p, o, l, tok) ==
    IF client.open
    THEN /\ pc' = [pc EXCEPT ![p] = "close_wait"]
         /\ loc' = [loc EXCEPT ![p] = l]
         /\ client' = [client EXCEPT !.closed = TRUE]
    ELSE NewClient(p, o, l, tok)

\* what follows ensure_authenticated() or a successful login in each
\* operation; tok is the token _access_token holds at that moment
Resume(p, o, l, tok) ==
    IF o \in {"_request", "authenticate", "login_with_signature"}
    THEN _refresh_client(p, o, [l EXCEPT !.ensured = (o = "_request")], tok)
    ELSE Return(p, l, tok)

\* faulty variant of ensure_authenticated: authenticates whatever is stored
ensure_authenticated_always(p, o, l) == authenticate(p, o, l)

\* ensure_authenticated up to its first await: the token test and, with no
\* token, authenticate(); with a token it returns the token at once
ensure_authenticated(p, o, l) ==
    IF access_token = NoToken
    THEN authenticate(p, o, l)
    ELSE Resume(p, o, l, access_token)

\* faulty variant of the except branches of login: a rejected login is
\* posted once more before the error is raised
LoginFailed_retry(p, o, l, s) ==
    IF s \in 400..499 /\ Count(l.steps, "post") < 2
    THEN PostLogin(p, o, l, l.addr, l.sig, l.ts)
    ELSE Fail(p, o, [l EXCEPT !.rejected = (s \in 400..499), !.status = s],
              ExternalServiceError("Pear Protocol", IF s = 0 THEN "" ELSE "Login failed: ",
                                   RawText(s)))

\* the except branches of login: the error is raised, nothing is stored
LoginFailed(p, o, l, s) ==
    Fail(p, o, [l EXCEPT !.rejected = (s \in 400..499), !.status = s],
         ExternalServiceError("Pear Protocol", IF s = 0 THEN "" ELSE "Login failed: ", RawText(s)))

\* what follows a fetched challenge c: sign it, then log in
AfterChallenge(p, o, l, c) ==
    LET own == o = "authenticate_wallet" /\ arg[p].key # "none" IN
    IF ~own /\ private_key = "none"
    THEN Fail(p, o, [l EXCEPT !.chal = c],
              ExternalServiceError("Pear Protocol", "", "No private key configured"))
    ELSE LET st == IF own THEN sign_eip712_message_with_key(c, arg[p].key)
                          ELSE sign_eip712_message(c)
             l2 == [l EXCEPT !.chal = c, !.sig = st[1], !.ts = st[2],
                             !.steps = Append(l.steps, "sign")] IN
         IF o = "authenticate_wallet"
         THEN login(p, o, l2, arg[p].address, st[1], st[2])
         ELSE IF l.stage = "authenticate"
              THEN login(p, o, l2, "none", st[1], st[2])
              ELSE PostLogin(p, o, l2, l.addr, st[1], st[2])

(* ------------------------------ Pear API ------------------------------- *)
\* POST /auth/login accepts a signature by the address's own key over a
\* challenge it issued for that address, with that challenge's timestamp
LoginValid(address, signature, timestamp) ==
    /\ signature.msg \in issued
    /\ signature.signer = address
    /\ signature.msg.address = address
    /\ signature.msg.timestamp = timestamp

\* an authenticated endpoint accepts only a bearer token the API issued; it
\* may still answer 401 for one (the token expired on the server)
TokenValid(hdr) == hdr.scheme = "Bearer" /\ hdr.token \in tokens

(* ------------------------------ actions -------------------------------- *)
Init ==
    /\ access_token = NoToken
    /\ private_key \in {"kA", "none"}
    /\ client = NoClient
    /\ issued = {}
    /\ tokens = {}
    /\ agentStatus \in AgentWalletStatus
    /\ pc = [p \in Callers |-> "idle"]
    /\ op = [p \in Callers |-> "none"]
    /\ arg = [p \in Callers |-> NoArg]
    /\ loc = [p \in Callers |-> LocInit]
    /\ extraAgents = {}
    /\ maxBuilderFee = NoFee
    /\ hpc = [r \in Runs |-> "idle"]
    /\ hloc = [r \in Runs |-> HLocInit]
    /\ AuxInit

\* PearAuthService.ensure_authenticated()
EnsureAuthenticated(p) ==
    /\ pc[p] = "idle"
    /\ op' = [op EXCEPT ![p] = "ensure_authenticated"]
    /\ ensure_authenticated(p, "ensure_authenticated", Begin(p))
    /\ UNCHANGED <<access_token, private_key, issued, tokens, agentStatus, arg,
                   hlVars, auxVars>>

\* PearService.authenticate() (POST /auth/authenticate)
Authenticate(p) ==
    /\ pc[p] = "idle"
    /\ op' = [op EXCEPT ![p] = "authenticate"]
    /\ authenticate(p, "authenticate", Begin(p))
    /\ UNCHANGED <<access_token, private_key, issued, tokens, agentStatus, arg,
                   hlVars, auxVars>>

\* what a client can present: a signature it made with the key of its address
\* over a challenge the Pear API handed out, and any timestamp
ClientSignatures == {SignTyped(KeyOf(c.address), c) : c \in issued}
ClientTimestamps == 1..MaxChallenges

\* PearAuthService.login(address, client_id, signature, timestamp)
Login(p) ==
    /\ pc[p] = "idle"
    /\ \E a \in Addrs \cup {"none"}, s \in ClientSignatures \cup {NoSig},
          t \in ClientTimestamps \cup {0} :
        /\ op' = [op EXCEPT ![p] = "login"]
        /\ arg' = [arg EXCEPT ![p] = [NoArg EXCEPT !.address = a, !.signature = s,
                                                   !.timestamp = t]]
        /\ login(p, "login", Begin(p), a, s, t)
    /\ UNCHANGED <<access_token, private_key, issued, tokens, agentStatus,
                   hlVars, auxVars>>

\* PearService.login_with_signature(request) (POST /auth/login)
LoginWithSignature(p) ==
    /\ pc[p] = "idle"
    /\ \E a \in Addrs, s \in ClientSignatures \cup {NoSig},
          t \in ClientTimestamps \cup {0} :
        /\ op' = [op EXCEPT ![p] = "login_with_signature"]
        /\ arg' = [arg EXCEPT ![p] = [NoArg EXCEPT !.address = a, !.signature = s,
                                                   !.timestamp = t]]
        /\ IF s = NoSig
           THEN Fail(p, "login_with_signature", Begin(p),
                     ExternalServiceError("Pear Protocol", "", "Missing signature in details"))
           ELSE login(p, "login_with_signature", Begin(p), a, s, t)
    /\ UNCHANGED <<access_token, private_key, issued, tokens, agentStatus,
                   hlVars, auxVars>>

\* POST /auth/authenticate-wallet: challenge for the given address, signed
\* with the given key or the server's, then login for that address
AuthenticateWallet(p) ==
    /\ pc[p] = "idle"
    /\ \E a \in Addrs, k \in Keys \cup {"none"} :
        /\ op' = [op EXCEPT ![p] = "authenticate_wallet"]
        /\ arg' = [arg EXCEPT ![p] = [NoArg EXCEPT !.address = a, !.key = k]]
        /\ get_eip712_message(p, "authenticate_wallet", Begin(p), a, "authenticate_wallet")
    /\ UNCHANGED <<access_token, private_key, issued, tokens, agentStatus,
                   hlVars, auxVars>>

\* PearService.get_eip712_message(address) (GET /auth/eip712-message): hands
\* the challenge for an address to a client that signs it itself
GetEip712Message(p) ==
    /\ pc[p] = "idle"
    /\ \E a \in Addrs :
        /\ op' = [op EXCEPT ![p] = "get_eip712_message"]
        /\ arg' = [arg EXCEPT ![p] = [NoArg EXCEPT !.address = a]]
        /\ get_eip712_message(p, "get_eip712_message", Begin(p), a, "get")
    /\ UNCHANGED <<access_token, private_key, issued, tokens, agentStatus,
                   hlVars, auxVars>>

\* the Pear API answers GET /auth/eip712-message
FetchRespond(p) ==
    /\ pc[p] = "fetch_wait"
    /\ \/ /\ Cardinality(issued) < MaxChallenges
          /\ LET c == [address |-> loc[p].addr, timestamp |-> Cardinality(issued) + 1] IN
               /\ issued' = issued \cup {c}
               /\ IF op[p] = "get_eip712_message"
                  THEN Return(p, [loc[p] EXCEPT !.chal = c], NoToken)
                  ELSE AfterChallenge(p, op[p], loc[p], c)
       \/ /\ \E s \in {500, 0} :
               Fail(p, op[p], [loc[p] EXCEPT !.status = s],
                    ExternalServiceError("Pear Protocol",
                        IF s = 0 THEN "" ELSE "Failed to get EIP-712 message: ", RawText(s)))
          /\ UNCHANGED issued
    /\ UNCHANGED <<access_token, private_key, tokens, agentStatus, op, arg,
                   hlVars, auxVars>>

\* the Pear API answers POST /auth/login
LoginRespond(p) ==
    /\ pc[p] = "login_wait"
    /\ LET l == loc[p] IN
       \/ /\ LoginValid(l.addr, l.sig, l.ts)
          /\ Cardinality(tokens) < MaxTokens
          /\ LET t == [address |-> l.addr, n |-> Cardinality(tokens) + 1] IN
               /\ tokens' = tokens \cup {t}
               /\ access_token' = t
               /\ Resume(p, op[p], [l EXCEPT !.stored = TRUE, !.ret = t, !.status = 200], t)
       \/ /\ LoginValid(l.addr, l.sig, l.ts)
          /\ Fail(p, op[p], [l EXCEPT !.status = 200],
                  ExternalServiceError("Pear Protocol", "", "No access token in response"))
          /\ UNCHANGED <<access_token, tokens>>
       \/ /\ \E s \in {401, 500, 0} : LoginFailed(p, op[p], l, s)
          /\ UNCHANGED <<access_token, tokens>>
    /\ UNCHANGED <<private_key, issued, agentStatus, op, arg,
                   hlVars, auxVars>>

\* PearService._request(method, endpoint, require_auth=True)
Request(p) ==
    /\ pc[p] = "idle"
    /\ \E e \in Endpoints :
        /\ op' = [op EXCEPT ![p] = "_request"]
        /\ arg' = [arg EXCEPT ![p] = [NoArg EXCEPT !.endpoint = e]]
        /\ ensure_authenticated(p, "_request", Begin(p))
    /\ UNCHANGED <<access_token, private_key, issued, tokens, agentStatus,
                   hlVars, auxVars>>

\* aclose() of the old client is done: the new client is made
CloseDone(p) ==
    /\ pc[p] = "close_wait"
    /\ NewClient(p, op[p], loc[p], access_token)
    /\ UNCHANGED <<access_token, private_key, issued, tokens, agentStatus, op, arg,
                   hlVars, auxVars>>

\* POST /positions of router_pear: forwards the caller's bearer token
CreatePositionTrade(p) ==
    /\ pc[p] = "idle"
    /\ \E t \in tokens \cup {NoToken} :
        /\ op' = [op EXCEPT ![p] = "create_position_trade"]
        /\ arg' = [arg EXCEPT ![p] = [NoArg EXCEPT !.authorization = t,
                                                   !.endpoint = "POST /positions"]]
        /\ pc' = [pc EXCEPT ![p] = "http_wait"]
        /\ loc' = [loc EXCEPT ![p] =
                     [Begin(p) EXCEPT !.hdr = get_auth_headers(t), !.sessAtSend = access_token,
                                      !.steps = <<"send">>]]
    /\ UNCHANGED <<access_token, private_key, client, issued, tokens, agentStatus,
                   hlVars, auxVars>>

\* the Pear API answers an authenticated request
HttpRespond(p) ==
    /\ pc[p] = "http_wait"
    /\ \E s \in {200, 401, 500} :
        /\ s = 200 => TokenValid(loc[p].hdr)
        /\ IF s = 200 \/ op[p] = "create_position_trade"
           THEN Return(p, [loc[p] EXCEPT !.status = s], loc[p].ret)
           ELSE Fail(p, op[p], [loc[p] EXCEPT !.status = s],
                     ExternalServiceError("Pear Protocol",
                         IF s = 0 THEN "" ELSE "status: ", RawText(s)))
    /\ UNCHANGED <<access_token, private_key, issued, tokens, agentStatus, op, arg,
                   hlVars, auxVars>>

Next ==
    \/ \E p \in Callers : EnsureAuthenticated(p)
    \/ \E p \in Callers : Authenticate(p)
    \/ \E p \in Callers : Login(p)
    \/ \E p \in Callers : LoginWithSignature(p)
    \/ \E p \in Callers : AuthenticateWallet(p)
    \/ \E p \in Callers : Request(p)
    \/ \E p \in Callers : CreatePositionTrade(p)
    \/ \E p \in Callers : FetchRespond(p)
    \/ \E p \in Callers : LoginRespond(p)
    \/ \E p \in Callers : CloseDone(p)
    \/ \E p \in Callers : HttpRespond(p)
    \/ \E p \in Callers : GetEip712Message(p)

Spec == Init /\ [][Next]_vars

(* ------------------ agent approval on Hyperliquid ---------------------- *)
\* check_agent_approved on a 200 answer listing agents: case-insensitive match
check_agent_approved(agents, agent_address) ==
    \E a \in agents : Lower(a) = Lower(agent_address)

\* sign the approveAgent action and hand it to exchange._post_action
PostApproveAgent(r, l) ==
    /\ hpc' = [hpc EXCEPT ![r] = "post_wait"]
    /\ hloc' = [hloc EXCEPT ![r] = [l EXCEPT !.steps = Append(l.steps, "approve")]]

\* pear_setup.step5_approve_agent up to the extraAgents query
Step5ApproveAgent(r) ==
    /\ hpc[r] = "idle"
    /\ \E a \in AgentAddrs :
        /\ hpc' = [hpc EXCEPT ![r] = "query_wait"]
        /\ hloc' = [hloc EXCEPT ![r] = [HLocInit EXCEPT !.script = "pear_setup",
                                                        !.agent = a, !.steps = <<"query">>]]
    /\ UNCHANGED <<extraAgents, maxBuilderFee, pearVars, auxVars>>

\* Hyperliquid answers the extraAgents query; step5_approve_agent goes on
QueryRespond(r) ==
    /\ hpc[r] = "query_wait"
    /\ LET l == hloc[r] IN
       \/ LET found == check_agent_approved(extraAgents, l.agent)
              l2 == [l EXCEPT !.queried = TRUE, !.listed = found,
                              !.exact = (l.agent \in extraAgents)] IN
          IF found
          THEN /\ hpc' = [hpc EXCEPT ![r] = "done"]
               /\ hloc' = [hloc EXCEPT ![r] = [l2 EXCEPT !.result = "already_approved"]]
          ELSE PostApproveAgent(r, l2)
       \/ PostApproveAgent(r, [l EXCEPT !.queried = TRUE])
    /\ UNCHANGED <<extraAgents, maxBuilderFee, pearVars, auxVars>>

\* setup_pear_complete.step3_approve_agent up to exchange._post_action
Step3ApproveAgent(r) ==
    /\ hpc[r] = "idle"
    /\ \E a \in AgentAddrs :
        PostApproveAgent(r, [HLocInit EXCEPT !.script = "setup_pear_complete", !.agent = a])
    /\ UNCHANGED <<extraAgents, maxBuilderFee, pearVars, auxVars>>

\* Hyperliquid answers the approveAgent action; the script reports
PostRespond(r) ==
    /\ hpc[r] = "post_wait"
    /\ LET l == hloc[r]
           used == Lower(l.agent) \in extraAgents IN
       \/ /\ ~used
          /\ extraAgents' = extraAgents \cup {Lower(l.agent)}
          /\ hpc' = [hpc EXCEPT ![r] = "done"]
          /\ hloc' = [hloc EXCEPT ![r] = [l EXCEPT !.result = "ok"]]
       \/ /\ used
          /\ extraAgents' = extraAgents
          /\ hpc' = [hpc EXCEPT ![r] = "done"]
          /\ hloc' = [hloc EXCEPT ![r] =
                        [l EXCEPT !.result = IF l.script = "pear_setup"
                                             THEN "already_approved" ELSE "err"]]
       \/ /\ extraAgents' = extraAgents
          /\ hpc' = [hpc EXCEPT ![r] = IF l.script = "pear_setup" THEN "raised" ELSE "done"]
          /\ hloc' = [hloc EXCEPT ![r] = [l EXCEPT !.result = "error"]]
    /\ UNCHANGED <<maxBuilderFee, pearVars, auxVars>>

\* check_builder_approved on a 200 answer carrying data: a fee other than "0"
check_builder_approved(data) == data # "none" /\ data # "0"

\* exchange.approve_builder_fee(BUILDER_ADDRESS, MAX_FEE_RATE) is called
PostApproveBuilderFee(r, l) ==
    /\ hpc' = [hpc EXCEPT ![r] = "fee_post_wait"]
    /\ hloc' = [hloc EXCEPT ![r] = [l EXCEPT !.steps = Append(l.steps, "fee_approve")]]

\* pear_setup.step6_approve_builder_fee up to the maxBuilderFee query
Step6ApproveBuilderFee(r) ==
    /\ hpc[r] = "idle"
    /\ hpc' = [hpc EXCEPT ![r] = "fee_query_wait"]
    /\ hloc' = [hloc EXCEPT ![r] = [HLocInit EXCEPT !.script = "pear_setup",
                                                    !.steps = <<"fee_query">>]]
    /\ UNCHANGED <<extraAgents, maxBuilderFee, pearVars, auxVars>>

\* Hyperliquid answers the maxBuilderFee query (200 with the fee, or not
\* 200); step6_approve_builder_fee goes on
FeeQueryRespond(r) ==
    /\ hpc[r] = "fee_query_wait"
    /\ LET l == hloc[r] IN
       \/ LET l2 == [l EXCEPT !.queried = TRUE, !.feeSeen = maxBuilderFee] IN
          IF check_builder_approved(maxBuilderFee)
          THEN /\ hpc' = [hpc EXCEPT ![r] = "done"]
               /\ hloc' = [hloc EXCEPT ![r] = [l2 EXCEPT !.result = "already_approved"]]
          ELSE PostApproveBuilderFee(r, l2)
       \/ PostApproveBuilderFee(r, [l EXCEPT !.queried = TRUE])
    /\ UNCHANGED <<extraAgents, maxBuilderFee, pearVars, auxVars>>

\* setup_pear_complete.step4_approve_builder_fee up to approve_builder_fee
Step4ApproveBuilderFee(r) ==
    /\ hpc[r] = "idle"
    /\ PostApproveBuilderFee(r, [HLocInit EXCEPT !.script = "setup_pear_complete"])
    /\ UNCHANGED <<extraAgents, maxBuilderFee, pearVars, auxVars>>

\* Hyperliquid answers the approveBuilderFee action; the script reports
FeePostRespond(r) ==
    /\ hpc[r] = "fee_post_wait"
    /\ LET l == hloc[r] IN
       \/ /\ maxBuilderFee' = MAX_FEE_RATE
          /\ hpc' = [hpc EXCEPT ![r] = "done"]
          /\ hloc' = [hloc EXCEPT ![r] = [l EXCEPT !.result = "ok"]]
       \/ /\ maxBuilderFee' = maxBuilderFee
          /\ hpc' = [hpc EXCEPT ![r] = IF l.script = "pear_setup" THEN "raised" ELSE "done"]
          /\ hloc' = [hloc EXCEPT ![r] = [l EXCEPT !.result = "error"]]
    /\ UNCHANGED <<extraAgents, pearVars, auxVars>>

InitHL ==
    /\ access_token = NoToken
    /\ private_key = "kA"
    /\ client = NoClient
    /\ issued = {}
    /\ tokens = {}
    /\ agentStatus = "PENDING_APPROVAL"
    /\ pc = [p \in Callers |-> "idle"]
    /\ op = [p \in Callers |-> "none"]
    /\ arg = [p \in Callers |-> NoArg]
    /\ loc = [p \in Callers |-> LocInit]
    /\ extraAgents \in SUBSET {Lower(a) : a \in AgentAddrs}
    /\ maxBuilderFee \in {NoFee, MAX_FEE_RATE}
    /\ hpc = [r \in Runs |-> "idle"]
    /\ hloc = [r \in Runs |-> HLocInit]
    /\ AuxInit

NextHL ==
    \/ \E r \in Runs : Step5ApproveAgent(r)
    \/ \E r \in Runs : Step3ApproveAgent(r)
    \/ \E r \in Runs : QueryRespond(r)
    \/ \E r \in Runs : PostRespond(r)
    \/ \E r \in Runs : Step6ApproveBuilderFee(r)
    \/ \E r \in Runs : Step4ApproveBuilderFee(r)
    \/ \E r \in Runs : FeeQueryRespond(r)
    \/ \E r \in Runs : FeePostRespond(r)

SpecHL == InitHL /\ [][NextHL]_vars

(* ---------------------- PearService.get_agent_wallet ------------------- *)
\* a JSON object is a function from the keys it has to their values; None
\* (a null value, and what .get gives for a missing key) is "none"
ResponseKeys == {"agentWalletAddress", "agentAddress", "address", "status", "message"}
Get(d, k) == IF k \in DOMAIN d THEN d[k] ELSE "none"
Truthy(v) == v \notin {"none", ""}
\* Python's  a or b
Or(a, b) == IF Truthy(a) THEN a ELSE b
\* the object that has the keys of raw whose value is not "absent"
MkDict(raw) == [k \in {x \in DOMAIN raw : raw[x] # "absent"} |-> raw[k]]
EmptyDict == MkDict([status |-> "absent"])

\* an answer of the Pear API: status code, kind of body ("empty": no
\* content, "null": JSON null, "object": the JSON object json), error text
Answer(code, body, json, text) ==
    [status_code |-> code, body |-> body, json |-> json, text |-> text]

\* a _request that hands every body to response.json(): no content fails
request_result_strict(h) ==
    IF h.status_code >= 400 \/ h.status_code = 204 \/ h.body = "empty"
    THEN [raised |-> TRUE, message |-> <<h.status_code, h.text>>,
          null |-> FALSE, json |-> EmptyDict]
    ELSE [raised |-> FALSE, message |-> <<0, "">>, null |-> (h.body = "null"),
          json |-> IF h.body = "null" THEN EmptyDict ELSE h.json]

\* PearService._request from the response on: raise_for_status, {} for 204
\* or no content, else response.json(); an error carries "<code>: <text>"
request_result(h) ==
    IF h.status_code >= 400
    THEN [raised |-> TRUE, message |-> <<h.status_code, h.text>>,
          null |-> FALSE, json |-> EmptyDict]
    ELSE IF h.status_code = 204 \/ h.body = "empty"
    THEN [raised |-> FALSE, message |-> <<0, "">>, null |-> FALSE, json |-> EmptyDict]
    ELSE [raised |-> FALSE, message |-> <<0, "">>, null |-> (h.body = "null"),
          json |-> IF h.body = "null" THEN EmptyDict ELSE h.json]

\* "404" in str(e)
Has404(message) == message[1] = 404 \/ message[2] = "404"

\* PearAgentWalletResponse and its wallet_address property
PearAgentWalletResponse(a, b, c, status) ==
    [raised |-> FALSE, agentWalletAddress |-> a, agentAddress |-> b,
     address |-> c, status |-> status]
wallet_address_of(w) == Or(Or(w.agentWalletAddress, w.agentAddress), w.address)
WalletNotFound == PearAgentWalletResponse("none", "none", "none", "NOT_FOUND")
WalletRaised == [WalletNotFound EXCEPT !.raised = TRUE, !.status = "none"]

\* a status that is read from the status field alone
status_of_no_inference(response) ==
    LET status_str == Get(response, "status") IN
    IF status_str \in AgentWalletStatus THEN status_str ELSE "NOT_FOUND"

\* a status that passes an unknown status string on
status_of_raw(response) ==
    LET agent_address == Or(Or(Get(response, "agentWalletAddress"),
                               Get(response, "agentAddress")),
                            Get(response, "address"))
        status_str == Get(response, "status") IN
    IF Truthy(status_str) THEN status_str
    ELSE IF Truthy(agent_address) THEN "PENDING_APPROVAL"
    ELSE "NOT_FOUND"

\* the status get_agent_wallet gives to a response that is not empty
status_of(response) ==
    LET agent_address == Or(Or(Get(response, "agentWalletAddress"),
                               Get(response, "agentAddress")),
                            Get(response, "address"))
        status_str == Get(response, "status") IN
    IF Truthy(status_str)
    THEN IF status_str \in AgentWalletStatus THEN status_str
         ELSE IF Truthy(agent_address) THEN "PENDING_APPROVAL" ELSE "NOT_FOUND"
    ELSE IF Truthy(agent_address) THEN "PENDING_APPROVAL"
    ELSE "NOT_FOUND"

\* PearService.get_agent_wallet on the answer h of GET /agentWallet
get_agent_wallet(h) ==
    LET q == request_result(h) IN
    IF q.raised
    THEN IF Has404(q.message) THEN WalletNotFound ELSE WalletRaised
    ELSE IF q.null \/ DOMAIN q.json = {}
    THEN WalletNotFound
    ELSE PearAgentWalletResponse(Get(q.json, "agentWalletAddress"),
                                 Get(q.json, "agentAddress"),
                                 Get(q.json, "address"),
                                 status_of(q.json))

(* --------------------------- the setup flows --------------------------- *)
\* the field a Pear answer carries the agent address under
AddressFields == {"agentWalletAddress", "agentAddress", "address"}
PearWalletAddrs == {"0xab", "0xcd"}
NoAnswer == [ok |-> FALSE, field |-> "none", address |-> "none"]

\* what GET /agentWallet can answer: the wallet under one of the fields, a
\* 200 without a wallet, or an error status
GetAgentWalletAnswers(w) ==
    {NoAnswer, [NoAnswer EXCEPT !.ok = TRUE]}
    \cup {[ok |-> TRUE, field |-> f, address |-> w.address] :
            f \in {x \in AddressFields : w.address # "none"}}

\* what POST /agentWallet can answer and leave behind: a new wallet, the
\* existing one, or an error status
PostAgentWalletAnswers(w) ==
    {[answer |-> NoAnswer, wallet |-> w]}
    \cup {[answer |-> [ok |-> TRUE, field |-> f, address |-> w.address], wallet |-> w] :
            f \in {x \in AddressFields : w.address # "none"}}
    \cup {[answer |-> [ok |-> TRUE, field |-> f, address |-> a],
           wallet |-> [address |-> a, status |-> "PENDING_APPROVAL",
                       created |-> w.created + 1]] :
            f \in AddressFields,
            a \in {x \in PearWalletAddrs : x # w.address /\ w.created < MaxWallets}}

\* data.get("agentWalletAddress") / data.get("agentWalletAddress") or
\* data.get("address") of the scripts: None unless the field is one they read
ScriptRead(answer, fields) ==
    IF answer.ok /\ answer.field \in fields THEN answer.address ELSE "none"

Attempt(l, step) == [l EXCEPT !.steps = Append(l.steps, step)]

\* steps 1-3 of pear_setup.main, step1_authenticate of setup_pear_complete:
\* a status other than 200 raises out of main
Step1Authenticate(r) ==
    /\ fpc[r] = "idle"
    /\ \E f \in ScriptFlows, ok \in BOOLEAN :
        /\ fpc' = [fpc EXCEPT ![r] = IF ok THEN "wallet" ELSE "raised"]
        /\ floc' = [floc EXCEPT ![r] =
                      Attempt([FLocInit EXCEPT !.flow = f], "authenticate")]
    /\ UNCHANGED <<wallet, pearVars, hlVars, pureVars>>

\* pear_setup.step4_get_agent_wallet: GET, on a status other than 200 POST,
\* on a status other than 200/201 GET again, else raise
step4_get_agent_wallet(w) ==
    {[raised |-> FALSE, agent |-> ScriptRead(g, {"agentWalletAddress"}), wallet |-> w] :
        g \in {x \in GetAgentWalletAnswers(w) : x.ok}}
    \cup {[raised |-> FALSE,
           agent |-> ScriptRead(q.answer, {"agentWalletAddress", "address"}),
           wallet |-> q.wallet] :
        q \in {x \in PostAgentWalletAnswers(w) : x.answer.ok}}
    \cup {[raised |-> FALSE, agent |-> ScriptRead(g, {"agentWalletAddress"}), wallet |-> w] :
        g \in {x \in GetAgentWalletAnswers(w) : x.ok}}
    \cup {[raised |-> TRUE, agent |-> "none", wallet |-> w]}

\* setup_pear_complete.step2_create_agent_wallet: as above, but a GET that
\* carries no agentWalletAddress falls through to the next request
step2_create_agent_wallet(w) ==
    {[raised |-> FALSE, agent |-> ScriptRead(g, {"agentWalletAddress"}), wallet |-> w] :
        g \in {x \in GetAgentWalletAnswers(w) :
                 ScriptRead(x, {"agentWalletAddress"}) # "none"}}
    \cup {[raised |-> FALSE,
           agent |-> ScriptRead(q.answer, {"agentWalletAddress", "address"}),
           wallet |-> q.wallet] :
        q \in {x \in PostAgentWalletAnswers(w) : x.answer.ok}}
    \cup {[raised |-> TRUE, agent |-> "none", wallet |-> w]}

\* STEP 4 of pear_setup.main / Step 2 of setup_pear_complete.main
Step4GetAgentWallet(r) ==
    /\ fpc[r] = "wallet"
    /\ LET l == floc[r] IN
       \E o \in IF l.flow = "pear_setup" THEN step4_get_agent_wallet(wallet)
                ELSE step2_create_agent_wallet(wallet) :
        /\ wallet' = o.wallet
        /\ fpc' = [fpc EXCEPT ![r] = IF o.raised THEN "raised" ELSE "agent"]
        /\ floc' = [floc EXCEPT ![r] =
                      [Attempt(l, "agent_wallet") EXCEPT !.agent = o.agent]]
    /\ UNCHANGED <<pearVars, hlVars, pureVars>>

\* the outcomes of approving agent address a: accepted, found approved
\* already, or refused / failed; without an address the step can only fail
ApproveAgentOutcomes(a) ==
    IF a = "none" THEN {"error"}
    ELSE IF Lower(a) \in extraAgents THEN {"already_approved", "error"}
    ELSE {"ok", "error"}

\* STEP 5 of pear_setup.main (an exception is printed and main goes on) /
\* Step 3 of setup_pear_complete.main (step3_approve_agent returns the error)
Step5ApproveAgentMain(r) ==
    /\ fpc[r] = "agent"
    /\ LET l == floc[r] IN
       \E o \in ApproveAgentOutcomes(l.agent) :
        /\ extraAgents' = IF o = "ok" THEN extraAgents \cup {Lower(l.agent)}
                          ELSE extraAgents
        /\ fpc' = [fpc EXCEPT ![r] = "fee"]
        /\ floc' = [floc EXCEPT ![r] =
                      [Attempt(l, "approve_agent") EXCEPT !.agentOk = (o # "error")]]
    /\ UNCHANGED <<maxBuilderFee, hpc, hloc, wallet, pearVars, pureVars>>

\* the outcomes of the builder-fee step: pear_setup asks first and may find
\* the fee approved, setup_pear_complete writes at once
ApproveBuilderFeeOutcomes(flow) ==
    IF flow = "pear_setup" /\ check_builder_approved(maxBuilderFee)
    THEN {"already_approved", "ok", "error"}
    ELSE {"ok", "error"}

\* STEP 6 of pear_setup.main (an exception is printed and main goes on) /
\* Step 4 of setup_pear_complete.main (step4_approve_builder_fee returns the error)
Step6ApproveBuilderFeeMain(r) ==
    /\ fpc[r] = "fee"
    /\ LET l == floc[r] IN
       \E o \in ApproveBuilderFeeOutcomes(l.flow) :
        /\ maxBuilderFee' = IF o = "ok" THEN MAX_FEE_RATE ELSE maxBuilderFee
        /\ fpc' = [fpc EXCEPT ![r] = "trade"]
        /\ floc' = [floc EXCEPT ![r] =
                      [Attempt(l, "approve_fee") EXCEPT !.feeOk = (o # "error")]]
    /\ UNCHANGED <<extraAgents, hpc, hloc, wallet, pearVars, pureVars>>

\* STEP 7 of pear_setup.main / Step 5 of setup_pear_complete.main: the test trade
Step7TestTrade(r) ==
    /\ fpc[r] = "trade"
    /\ fpc' = [fpc EXCEPT ![r] = "done"]
    /\ floc' = [floc EXCEPT ![r] = Attempt(floc[r], "trade")]
    /\ UNCHANGED <<wallet, pearVars, hlVars, pureVars>>

\* HyperliquidService.setup_pear_protocol, Step 1: what approve_builder_fee
\* gave (a response with status ok, another response, an exception saying
\* "already"/"exists", another exception) and what the result then says
BuilderFeeAnswers == {"ok", "not_ok", "raised_already", "raised"}
builder_fee_approved(answer) == answer \in {"ok", "not_ok", "raised_already"}
BuilderFeeErrors(answer) == IF answer \in {"not_ok", "raised"} THEN 1 ELSE 0

\* Step 2: exchange.approve_agent(name) makes an agent of its own and gives
\* (response, agent_key), or something that is no tuple, or raises
SdkAgent == "0xee"
AgentAnswers ==
    {"tuple_ok", "tuple_not_ok", "tuple_no_key", "other_ok", "other_not_ok",
     "raised_already", "raised"}
agent_wallet_approved(answer) ==
    answer \in {"tuple_ok", "tuple_not_ok", "other_ok", "other_not_ok", "raised_already"}
AgentErrors(answer) == IF answer \in {"tuple_no_key", "raised"} THEN 1 ELSE 0
\* whether Hyperliquid holds the approval after the answer
Approved(answer) == answer \in {"ok", "tuple_ok", "other_ok", "raised_already"}

\* setup_pear_protocol has no await between its steps: one action
SetupPearProtocol(r) ==
    /\ fpc[r] = "idle"
    /\ \E b \in BuilderFeeAnswers, a \in AgentAnswers :
        /\ maxBuilderFee' = IF b = "ok" THEN PEAR_BUILDER_MAX_FEE_RATE ELSE maxBuilderFee
        /\ extraAgents' = IF a \in {"tuple_ok", "other_ok"}
                          THEN extraAgents \cup {SdkAgent} ELSE extraAgents
        /\ fpc' = [fpc EXCEPT ![r] = "done"]
        /\ floc' = [floc EXCEPT ![r] =
             [FLocInit EXCEPT
                !.flow = "setup_pear_protocol",
                !.steps = <<"approve_fee", "approve_agent">>,
                !.feeOk = Approved(b),
                !.agentOk = Approved(a),
                !.report = [NoReport EXCEPT
                    !.builder_fee_approved = builder_fee_approved(b),
                    !.agent_wallet_approved = agent_wallet_approved(a),
                    !.success = builder_fee_approved(b) /\ agent_wallet_approved(a),
                    !.errors = BuilderFeeErrors(b) + AgentErrors(a),
                    !.agent_wallet_address =
                        IF a \in {"tuple_ok", "tuple_not_ok"} THEN SdkAgent ELSE "none"]]]
    /\ UNCHANGED <<hpc, hloc, wallet, pearVars, pureVars>>

\* what GET /agentWallet answers to the service for wallet w: the wallet
\* under one of the address fields, with or without its status; an empty
\* object or a 404 when there is none; or a server error
WalletDict(f, a, st) ==
    MkDict([k \in {f, "status"} |-> IF k = "status" THEN st ELSE a])
WalletAnswers(w) ==
    {Answer(500, "object", EmptyDict, "error")}
    \cup (IF w.address = "none"
          THEN {Answer(200, "object", EmptyDict, ""), Answer(404, "object", EmptyDict, "")}
          ELSE {Answer(200, "object", WalletDict(f, w.address, st), "") :
                    f \in AddressFields, st \in {"absent", w.status}})

\* PearService.create_agent_wallet on the answer of POST /agentWallet
create_agent_wallet(answer) ==
    [raised |-> ~answer.ok, wallet_address |-> ScriptRead(answer, AddressFields)]

\* the branch setup_agent_wallet takes on the wallet status
setup_branch_create(status) == "created"
setup_branch(status) ==
    IF status = "ACTIVE" THEN "ready"
    ELSE IF status = "PENDING_APPROVAL" THEN "pending_approval"
    ELSE IF status \in {"NOT_FOUND", "EXPIRED"} THEN "created"
    ELSE "none"

\* except Exception: HTTP 500 whose detail is the result built so far
SetupFailed(l) ==
    [l EXCEPT !.report.status = "error", !.report.http = 500]
Succeeded(l, step) ==
    [l EXCEPT !.report.steps = Append(l.report.steps, step)]

\* router setup_agent_wallet, Step 1: service.authenticate()
SetupAuthenticate(r) ==
    /\ fpc[r] = "idle"
    /\ LET l == Attempt([FLocInit EXCEPT !.flow = "setup_agent_wallet"], "authenticate") IN
       \/ /\ fpc' = [fpc EXCEPT ![r] = "check_status"]
          /\ floc' = [floc EXCEPT ![r] = Succeeded(l, "authenticate")]
       \/ /\ fpc' = [fpc EXCEPT ![r] = "done"]
          /\ floc' = [floc EXCEPT ![r] = SetupFailed(l)]
    /\ UNCHANGED <<wallet, pearVars, hlVars, pureVars>>

\* router setup_agent_wallet, Step 2 and the branch on the status
SetupCheckStatus(r) ==
    /\ fpc[r] = "check_status"
    /\ \E h \in WalletAnswers(wallet) :
        LET l == [Attempt(floc[r], "check_status") EXCEPT !.existing = wallet.address]
            w == get_agent_wallet(h)
            l2 == [Succeeded(l, "check_status") EXCEPT !.status = w.status]
            b == setup_branch(w.status) IN
        IF w.raised
        THEN /\ fpc' = [fpc EXCEPT ![r] = "done"]
             /\ floc' = [floc EXCEPT ![r] = SetupFailed(l)]
        ELSE IF b = "created"
        THEN /\ fpc' = [fpc EXCEPT ![r] = "create_wallet"]
             /\ floc' = [floc EXCEPT ![r] = l2]
        ELSE /\ fpc' = [fpc EXCEPT ![r] = "done"]
             /\ floc' = [floc EXCEPT ![r] =
                    [l2 EXCEPT !.report.status = b,
                               !.report.agent_wallet_address = wallet_address_of(w),
                               !.report.http = 200]]
    /\ UNCHANGED <<wallet, pearVars, hlVars, pureVars>>

\* router setup_agent_wallet, Step 3: service.create_agent_wallet()
SetupCreateWallet(r) ==
    /\ fpc[r] = "create_wallet"
    /\ \E q \in PostAgentWalletAnswers(wallet) :
        LET l == [Attempt(floc[r], "create_wallet") EXCEPT
                    !.created = q.wallet.created - wallet.created]
            n == create_agent_wallet(q.answer) IN
        /\ wallet' = q.wallet
        /\ fpc' = [fpc EXCEPT ![r] = "done"]
        /\ floc' = [floc EXCEPT ![r] =
              IF n.raised THEN SetupFailed(l)
              ELSE [Succeeded(l, "create_wallet") EXCEPT
                      !.report.status = "created",
                      !.report.agent_wallet_address = n.wallet_address,
                      !.report.http = 200]]
    /\ UNCHANGED <<pearVars, hlVars, pureVars>>

\* router create_agent_wallet (POST /agent-wallet): service.create_agent_wallet(),
\* HTTP 400 on any exception
CreateAgentWallet(r) ==
    /\ fpc[r] = "idle"
    /\ \E q \in PostAgentWalletAnswers(wallet) :
        LET l == [Attempt([FLocInit EXCEPT !.flow = "create_agent_wallet"], "create_wallet")
                    EXCEPT !.existing = wallet.address, !.status = wallet.status,
                           !.created = q.wallet.created - wallet.created]
            n == create_agent_wallet(q.answer) IN
        /\ wallet' = q.wallet
        /\ fpc' = [fpc EXCEPT ![r] = "done"]
        /\ floc' = [floc EXCEPT ![r] =
              IF n.raised THEN [l EXCEPT !.report.http = 400]
              ELSE [l EXCEPT !.report.agent_wallet_address = n.wallet_address,
                             !.report.status = "PENDING_APPROVAL",
                             !.report.http = 200]]
    /\ UNCHANGED <<pearVars, hlVars, pureVars>>

PearIdle ==
    /\ access_token = NoToken
    /\ private_key = "kA"
    /\ client = NoClient
    /\ issued = {}
    /\ tokens = {}
    /\ agentStatus = "PENDING_APPROVAL"
    /\ pc = [p \in Callers |-> "idle"]
    /\ op = [p \in Callers |-> "none"]
    /\ arg = [p \in Callers |-> NoArg]
    /\ loc = [p \in Callers |-> LocInit]

InitSetup ==
    /\ PearIdle
    /\ extraAgents \in SUBSET {"0xab"}
    /\ maxBuilderFee \in {NoFee, MAX_FEE_RATE}
    /\ hpc = [r \in Runs |-> "idle"]
    /\ hloc = [r \in Runs |-> HLocInit]
    /\ wallet \in {NoWallet} \cup
                   {[address |-> "0xab", status |-> st, created |-> 1] :
                        st \in {"PENDING_APPROVAL", "ACTIVE", "EXPIRED"}}
    /\ fpc = [r \in Runs |-> "idle"]
    /\ floc = [r \in Runs |-> FLocInit]
    /\ WalletIdle
    /\ SignIdle
    /\ RouterIdle
    /\ FriendsIdle
    /\ CacheIdle

NextSetup ==
    \/ \E r \in Runs : Step1Authenticate(r)
    \/ \E r \in Runs : Step4GetAgentWallet(r)
    \/ \E r \in Runs : Step5ApproveAgentMain(r)
    \/ \E r \in Runs : Step6ApproveBuilderFeeMain(r)
    \/ \E r \in Runs : Step7TestTrade(r)
    \/ \E r \in Runs : SetupPearProtocol(r)
    \/ \E r \in Runs : SetupAuthenticate(r)
    \/ \E r \in Runs : SetupCheckStatus(r)
    \/ \E r \in Runs : SetupCreateWallet(r)
    \/ \E r \in Runs : CreateAgentWallet(r)

SpecSetup == InitSetup /\ [][NextSetup]_vars

(* ------------- get_agent_wallet over the answers of Pear --------------- *)
AddressValues == {"absent", "none", "", "0xab", "0xcd"}
StatusValues == AgentWalletStatus \cup {"absent", "none", "", "active", "UNKNOWN"}
RawObjects ==
    [agentWalletAddress : AddressValues, agentAddress : AddressValues,
     address : AddressValues, status : StatusValues, message : {"absent", "text"}]
HttpAnswers ==
    {Answer(200, "object", MkDict(raw), "") : raw \in RawObjects}
    \cup {Answer(200, "empty", EmptyDict, ""), Answer(200, "null", EmptyDict, ""),
          Answer(204, "empty", EmptyDict, ""),
          Answer(404, "object", EmptyDict, "Not Found"),
          Answer(500, "object", EmptyDict, "error"),
          Answer(500, "object", EmptyDict, "404")}

InitWallet ==
    /\ PearIdle
    /\ extraAgents = {}
    /\ maxBuilderFee = NoFee
    /\ hpc = [r \in Runs |-> "idle"]
    /\ hloc = [r \in Runs |-> HLocInit]
    /\ SetupIdle
    /\ http \in HttpAnswers
    /\ gw = NoResult
    /\ SignIdle
    /\ RouterIdle
    /\ FriendsIdle
    /\ CacheIdle

\* PearService.get_agent_wallet() with http the answer to its GET
GetAgentWallet ==
    /\ ~gw.called
    /\ gw' = [called |-> TRUE, result |-> get_agent_wallet(http)]
    /\ UNCHANGED <<http, notWallet>>

NextWallet == GetAgentWallet

SpecWallet == InitWallet /\ [][NextWallet]_vars

(* --------------- signing over typed-data challenges -------------------- *)
TypeNames == {"EIP712Domain", "Authentication", "Extra"}
FieldLists == {"f1", "f2"}
TypesMaps == UNION {[S -> FieldLists] : S \in SUBSET TypeNames}
DataKeys == {"domain", "types", "message"}
TypedData ==
    [present : SUBSET DataKeys, domain : {"d1", "d2"}, types : TypesMaps,
     message : [timestamp : {0, 1}]]
\* keys handed to sign_eip712_message_with_key: usable, malformed, empty
SubstituteKeys == Keys \cup {"bad", "none"}

\* a types mapping handed over as it came
encoder_types_keep(types) == types
\* types = eip712_data["types"].copy(), then del types["EIP712Domain"]
encoder_types(types) == [k \in DOMAIN types \ {"EIP712Domain"} |-> types[k]]

\* the deletion made on eip712_data["types"] itself
data_after_inplace(d) == [d EXCEPT !.types = encoder_types(d.types)]
\* the caller's eip712_data after the call: the deletion was made on a copy
data_after(d) == d

\* a signer that always uses the configured key, whatever key it was given
sign_outcome_configured(d, key) ==
    IF key = "none"
    THEN [NoOutcome EXCEPT !.raised = "ExternalServiceError"]
    ELSE IF ~(DataKeys \subseteq d.present)
    THEN [NoOutcome EXCEPT !.raised = "KeyError"]
    ELSE LET handed == [domain_data |-> d.domain,
                        message_types |-> encoder_types(d.types),
                        message_data |-> d.message] IN
         IF key \notin Keys
         THEN [NoOutcome EXCEPT !.raised = "ExternalServiceError",
                                !.encoded = TRUE, !.handed = handed]
         ELSE [raised |-> "none", encoded |-> TRUE, handed |-> handed,
               signature |-> [signer |-> AddrOf(private_key), over |-> handed],
               timestamp |-> d.message.timestamp]

\* sign_eip712_message / sign_eip712_message_with_key with the key in use:
\* no key raises first, a missing component raises KeyError, then the
\* encoder is handed its input, then a malformed key fails the signing
sign_outcome(d, key) ==
    IF key = "none"
    THEN [NoOutcome EXCEPT !.raised = "ExternalServiceError"]
    ELSE IF ~(DataKeys \subseteq d.present)
    THEN [NoOutcome EXCEPT !.raised = "KeyError"]
    ELSE LET handed == [domain_data |-> d.domain,
                        message_types |-> encoder_types(d.types),
                        message_data |-> d.message] IN
         IF key \notin Keys
         THEN [NoOutcome EXCEPT !.raised = "ExternalServiceError",
                                !.encoded = TRUE, !.handed = handed]
         ELSE [raised |-> "none", encoded |-> TRUE, handed |-> handed,
               signature |-> [signer |-> AddrOf(key), over |-> handed],
               timestamp |-> d.message.timestamp]

FirstToken == [address |-> "A", n |-> 1]

InitSign ==
    /\ private_key \in {"kA", "none"}
    /\ access_token \in {NoToken, FirstToken}
    /\ tokens = IF access_token = NoToken THEN {} ELSE {access_token}
    /\ client = NoClient
    /\ issued = {}
    /\ agentStatus = "PENDING_APPROVAL"
    /\ pc = [p \in Callers |-> "idle"]
    /\ op = [p \in Callers |-> "none"]
    /\ arg = [p \in Callers |-> NoArg]
    /\ loc = [p \in Callers |-> LocInit]
    /\ extraAgents = {}
    /\ maxBuilderFee = NoFee
    /\ hpc = [r \in Runs |-> "idle"]
    /\ hloc = [r \in Runs |-> HLocInit]
    /\ SetupIdle
    /\ WalletIdle
    /\ eip712_data \in TypedData
    /\ sg = NoSign
    /\ RouterIdle
    /\ FriendsIdle
    /\ CacheIdle

\* PearAuthService.sign_eip712_message(eip712_data)
SignEip712Message ==
    /\ sg.op = "none"
    /\ sg' = [op |-> "sign", key |-> "none", orig |-> eip712_data, key0 |-> private_key,
              token0 |-> access_token, out |-> sign_outcome(eip712_data, private_key)]
    /\ eip712_data' = data_after(eip712_data)
    /\ UNCHANGED notSign

\* PearAuthService.sign_eip712_message_with_key(eip712_data, private_key)
SignEip712MessageWithKey ==
    /\ sg.op = "none"
    /\ \E k \in SubstituteKeys :
        sg' = [op |-> "sign_with_key", key |-> k, orig |-> eip712_data, key0 |-> private_key,
               token0 |-> access_token, out |-> sign_outcome(eip712_data, k)]
    /\ eip712_data' = data_after(eip712_data)
    /\ UNCHANGED notSign

NextSign ==
    \/ SignEip712Message
    \/ SignEip712MessageWithKey

SpecSign == InitSign /\ [][NextSign]_vars

(* ------------------ the HTTP layer of the Pear endpoints --------------- *)
OpenEndpoints ==
    {"GET /auth/eip712-message", "POST /auth/login", "POST /auth/authenticate",
     "POST /auth/authenticate-wallet", "GET /agent-wallet", "POST /agent-wallet",
     "POST /agent-wallet/approve"}
\* the endpoints declared with  user: AuthenticatedUser
UserEndpoints == {"GET /pairs/positions", "GET /buckets"}
PearEndpoints == OpenEndpoints \cup UserEndpoints
\* what the component under an endpoint may fail with: Pear refused the
\* login, a network error or upstream status, a signing failure, bad input
Failures == {"none", "rejected", "external", "signing", "bad_input"}
Bearers == {"none", "invalid", "valid"}
\* HTTPBearer() without credentials: 403, or 401 in later FastAPI releases
MissingCredentialStatus == {401, 403}

Response(status, keys, answer, called) ==
    [handled |-> TRUE, status |-> status, keys |-> keys, answer |-> answer,
     called |-> called, submitted |-> FALSE]
\* raise HTTPException(status_code, detail=str(e))
HTTPException(status_code) == Response(status_code, {"detail"}, "none", TRUE)
\* main.global_exception_handler
global_exception_handler == Response(500, {"error", "message"}, "none", TRUE)

\* an approve_agent_wallet that returns instead of raising
approve_agent_wallet_silent(agent_address) ==
    [raised |-> "none", submitted |-> FALSE]
\* PearService.approve_agent_wallet: raises NotImplementedError, sends nothing
approve_agent_wallet(agent_address) ==
    [raised |-> "NotImplementedError", submitted |-> FALSE]

\* the dependencies and the handler of each endpoint on request q; missing is
\* the status HTTPBearer gives to a request without credentials
handle(q, missing) ==
    LET ok == Response(200, {"result"}, "none", TRUE) IN
    IF q.endpoint \in UserEndpoints
    THEN IF q.bearer = "none" THEN Response(missing, {"detail"}, "none", FALSE)
         ELSE IF q.bearer = "invalid" THEN Response(401, {"detail"}, "none", FALSE)
         ELSE IF q.failure = "none" THEN ok
         ELSE global_exception_handler
    ELSE IF q.endpoint = "POST /agent-wallet/approve"
    THEN LET o == approve_agent_wallet("0xab") IN
         IF o.raised = "none"
         THEN [Response(200, {"status", "agent_address"}, "approved", TRUE)
                  EXCEPT !.submitted = o.submitted]
         ELSE IF o.raised = "NotImplementedError"
         THEN Response(200, {"status", "agent_address", "agent_name", "message",
                             "instructions"},
                       "requires_client_side_approval", TRUE)
         ELSE HTTPException(400)
    ELSE IF q.endpoint = "POST /auth/authenticate-wallet"
    THEN IF q.failure = "bad_input"
         THEN Response(200, {"success", "authenticated", "error", "message"},
                       "none", FALSE)
         ELSE IF q.failure = "none"
         THEN Response(200, {"success", "authenticated", "address", "accessToken",
                             "message"}, "none", TRUE)
         ELSE Response(200, {"success", "authenticated", "address", "error",
                             "message"}, "none", TRUE)
    ELSE IF q.failure = "none" THEN ok
    ELSE IF q.endpoint \in {"GET /auth/eip712-message", "GET /agent-wallet"}
    THEN HTTPException(500)
    ELSE IF q.endpoint \in {"POST /auth/login", "POST /auth/authenticate"}
    THEN HTTPException(401)
    ELSE HTTPException(400)

InitRouter ==
    /\ PearIdle
    /\ extraAgents = {}
    /\ maxBuilderFee = NoFee
    /\ hpc = [r \in Runs |-> "idle"]
    /\ hloc = [r \in Runs |-> HLocInit]
    /\ SetupIdle
    /\ WalletIdle
    /\ SignIdle
    /\ rq \in [endpoint : PearEndpoints, bearer : Bearers, failure : Failures]
    /\ rs = NoResponse
    /\ FriendsIdle
    /\ CacheIdle

\* one request handled by the FastAPI application
HandleRequest ==
    /\ ~rs.handled
    /\ \E missing \in MissingCredentialStatus : rs' = handle(rq, missing)
    /\ UNCHANGED <<rq, notRouter>>

NextRouter == HandleRequest

SpecRouter == InitRouter /\ [][NextRouter]_vars

(* ------------------------- friends endpoints --------------------------- *)
\* the handlers are coroutines on one event loop and the Supabase client is
\* synchronous: no handler suspends between its reads and its write
Users == {"u1", "u2", "u3"}
FriendStatus == {"pending", "accepted", "rejected", "blocked"}
FriendIds == 1..MaxFriendRows

\* FriendRepository.get_relationship: the rows between two users in either
\* direction; the handler sees the first row the database returns
get_relationship(user_id_1, user_id_2) ==
    {f \in friends :
        \/ f.requester_id = user_id_1 /\ f.addressee_id = user_id_2
        \/ f.requester_id = user_id_2 /\ f.addressee_id = user_id_1}

\* BaseRepository.get_by_id
get_by_id(id) == {f \in friends : f.id = id}

FriendAnswer(o, user, target, id, status) ==
    [op |-> o, user |-> user, target |-> target, id |-> id, status |-> status]

\* FriendRepository.send_request: a new pending row
send_request(requester_id, addressee_id) ==
    /\ friend_seq' = friend_seq + 1
    /\ friends' = friends \cup {[id |-> friend_seq + 1, requester_id |-> requester_id,
                                 addressee_id |-> addressee_id, status |-> "pending"]}

\* send_friend_request: the statuses of an existing row that refuse a request
send_refused(existing) == existing.status \in {"accepted", "pending", "blocked"}

\* POST /requests
SendFriendRequest ==
    /\ friend_seq < MaxFriendRows
    /\ \E user \in Users, addressee_id \in Users :
        IF addressee_id = user
        THEN /\ fr' = FriendAnswer("send", user, addressee_id, 0, 400)
             /\ UNCHANGED <<friends, friend_seq>>
        ELSE \/ /\ get_relationship(user, addressee_id) = {}
                /\ send_request(user, addressee_id)
                /\ fr' = FriendAnswer("send", user, addressee_id, friend_seq + 1, 201)
             \/ \E existing \in get_relationship(user, addressee_id) :
                  IF send_refused(existing)
                  THEN /\ fr' = FriendAnswer("send", user, addressee_id, 0, 400)
                       /\ UNCHANGED <<friends, friend_seq>>
                  ELSE /\ send_request(user, addressee_id)
                       /\ fr' = FriendAnswer("send", user, addressee_id, friend_seq + 1, 201)
    /\ UNCHANGED notFriends

\* FriendRepository.accept_request / reject_request: the row's status is set
set_status(request_id, status) ==
    friends' = {IF f.id = request_id THEN [f EXCEPT !.status = status] ELSE f : f \in friends}

\* a decision that is not refused for a row that was decided before
decide_refused_never(existing) == FALSE

\* accept_friend_request / reject_friend_request: a row that is not pending
\* is refused
decide_refused(existing) == existing.status # "pending"

\* the body shared by accept_friend_request and reject_friend_request
Decide(o, user, request_id, status) ==
    IF get_by_id(request_id) = {}
    THEN /\ fr' = FriendAnswer(o, user, "none", request_id, 404)
         /\ UNCHANGED friends
    ELSE \E existing \in get_by_id(request_id) :
           IF existing.addressee_id # user
           THEN /\ fr' = FriendAnswer(o, user, "none", request_id, 403)
                /\ UNCHANGED friends
           ELSE IF decide_refused(existing)
           THEN /\ fr' = FriendAnswer(o, user, "none", request_id, 400)
                /\ UNCHANGED friends
           ELSE /\ set_status(request_id, status)
                /\ fr' = FriendAnswer(o, user, "none", request_id, 200)

\* POST /requests/{request_id}/accept
AcceptFriendRequest ==
    /\ \E user \in Users, request_id \in FriendIds :
        Decide("accept", user, request_id, "accepted")
    /\ UNCHANGED <<friend_seq, notFriends>>

\* POST /requests/{request_id}/reject
RejectFriendRequest ==
    /\ \E user \in Users, request_id \in FriendIds :
        Decide("reject", user, request_id, "rejected")
    /\ UNCHANGED <<friend_seq, notFriends>>

\* DELETE /{friend_id}
RemoveFriend ==
    /\ \E user \in Users, friend_id \in FriendIds :
        IF get_by_id(friend_id) = {}
        THEN /\ fr' = FriendAnswer("remove", user, "none", friend_id, 404)
             /\ UNCHANGED friends
        ELSE \E existing \in get_by_id(friend_id) :
               IF existing.requester_id # user /\ existing.addressee_id # user
               THEN /\ fr' = FriendAnswer("remove", user, "none", friend_id, 403)
                    /\ UNCHANGED friends
               ELSE /\ friends' = friends \ {existing}
                    /\ fr' = FriendAnswer("remove", user, "none", friend_id, 200)
    /\ UNCHANGED <<friend_seq, notFriends>>

InitFriends ==
    /\ PearIdle
    /\ extraAgents = {}
    /\ maxBuilderFee = NoFee
    /\ hpc = [r \in Runs |-> "idle"]
    /\ hloc = [r \in Runs |-> HLocInit]
    /\ SetupIdle
    /\ WalletIdle
    /\ SignIdle
    /\ RouterIdle
    /\ FriendsIdle
    /\ CacheIdle

NextFriends ==
    \/ SendFriendRequest
    \/ AcceptFriendRequest
    \/ RejectFriendRequest
    \/ RemoveFriend

SpecFriends == InitFriends /\ [][NextFriends]_vars

(* ------------------------ instruments endpoints ------------------------ *)
CACHE_TTL_SECONDS == 300
\* the seconds that pass between two requests
TickSteps == {100, 299, 300}
\* what HyperliquidService.get_instruments returns (a stub: always the same)
HyperliquidInstruments == <<"ETH", "BTC">>
\* what PearService.get_instruments can return: GET /instruments may list nothing
PearInstruments == {<<>>, <<"P1">>, <<"P1", "P2">>}

\* _get_cached_instruments: the cached list while its age is under the TTL,
\* None otherwise
_get_cached_instruments(source) ==
    LET e == _instruments_cache[source] IN
    IF e.present /\ now - e.cached_at < CACHE_TTL_SECONDS
    THEN [none |-> FALSE, instruments |-> e.instruments]
    ELSE [none |-> TRUE, instruments |-> <<>>]

\* _set_cached_instruments
_set_cached_instruments(cache, source, instruments) ==
    [cache EXCEPT ![source] =
        [present |-> TRUE, instruments |-> instruments, cached_at |-> now]]

\* `if cached:` a list is used when it is not None and not empty
if_cached(cached) == ~cached.none /\ Len(cached.instruments) > 0

\* what a handler sees and does for one source
Seen(source, fetched) ==
    [asked |-> TRUE, had |-> _instruments_cache[source].present,
     age |-> now - _instruments_cache[source].cached_at, fetched |-> fetched]

\* the cache after the handler's branch for one source; upstream is what
\* get_instruments returns when it is called
Lookup(cache, source, upstream) ==
    IF if_cached(_get_cached_instruments(source))
    THEN cache
    ELSE _set_cached_instruments(cache, source, upstream)

InstrumentsAnswer(o, asked) ==
    [op |-> o, at |-> now,
     seen |-> [s \in InstrumentSources |->
                 IF s \in asked
                 THEN Seen(s, ~if_cached(_get_cached_instruments(s)))
                 ELSE NoSeen]]

\* GET /instruments?source=...
ListAllInstruments ==
    /\ \E source \in {"none", "hyperliquid", "pear"}, p \in PearInstruments :
        LET asked == IF source = "none" THEN InstrumentSources ELSE {source}
            c1 == IF "hyperliquid" \in asked
                  THEN Lookup(_instruments_cache, "hyperliquid", HyperliquidInstruments)
                  ELSE _instruments_cache
            c2 == IF "pear" \in asked THEN Lookup(c1, "pear", p) ELSE c1 IN
        /\ _instruments_cache' = c2
        /\ ir' = InstrumentsAnswer("list_all_instruments", asked)
    /\ UNCHANGED <<now, notCache>>

\* GET /instruments/hyperliquid
ListHyperliquidInstruments ==
    /\ _instruments_cache' =
          Lookup(_instruments_cache, "hyperliquid", HyperliquidInstruments)
    /\ ir' = InstrumentsAnswer("list_hyperliquid_instruments", {"hyperliquid"})
    /\ UNCHANGED <<now, notCache>>

\* GET /instruments/pear
ListPearInstruments ==
    /\ \E p \in PearInstruments :
        _instruments_cache' = Lookup(_instruments_cache, "pear", p)
    /\ ir' = InstrumentsAnswer("list_pear_instruments", {"pear"})
    /\ UNCHANGED <<now, notCache>>

\* time passes between two requests
Tick ==
    /\ \E d \in TickSteps :
        /\ now + d <= MaxTime
        /\ now' = now + d
    /\ UNCHANGED <<_instruments_cache, ir, notCache>>

InitCache ==
    /\ PearIdle
    /\ extraAgents = {}
    /\ maxBuilderFee = NoFee
    /\ hpc = [r \in Runs |-> "idle"]
    /\ hloc = [r \in Runs |-> HLocInit]
    /\ SetupIdle
    /\ WalletIdle
    /\ SignIdle
    /\ RouterIdle
    /\ FriendsIdle
    /\ CacheIdle

NextCache ==
    \/ ListAllInstruments
    \/ ListHyperliquidInstruments
    \/ ListPearInstruments
    \/ Tick

SpecCache == InitCache /\ [][NextCache]_vars



(* ------------------------------ properties ----------------------------- *)
IsPrefix(s, t) == Len(s) <= Len(t) /\ \A i \in 1..Len(s) : s[i] = t[i]
IsAuthStep(x) == x \in {"fetch", "sign", "post"}
AuthSteps(s) == SelectSeq(s, IsAuthStep)
LastStep(s) == IF Len(s) = 0 THEN "none" ELSE s[Len(s)]
InFlight(p) == pc[p] \in {"fetch_wait", "login_wait"}

\* two ensure_authenticated() calls that both started with no token stored
\* and overlap: both are in flight, or both have stored a token of their own
ConcurrentEnsure(p, q) ==
    /\ p # q
    /\ op[p] = "ensure_authenticated" /\ op[q] = "ensure_authenticated"
    /\ loc[p].sessAtStart = NoToken /\ loc[q].sessAtStart = NoToken
    /\ \/ InFlight(p) /\ InFlight(q)
       \/ loc[p].stored /\ loc[q].stored

\* C1: concurrent ensure_authenticated() calls that start with no token stored
\* make one challenge fetch and one POST /auth/login in total and return the
\* same token (single-flight).
C1_SingleFlight ==
    \A p, q \in Callers :
        ConcurrentEnsure(p, q) =>
            /\ Count(loc[p].steps, "fetch") + Count(loc[q].steps, "fetch") <= 1
            /\ Count(loc[p].steps, "post") + Count(loc[q].steps, "post") <= 1
            /\ (pc[p] = "returned" /\ pc[q] = "returned") => loc[p].ret = loc[q].ret

\* C2: a PearService request answered 401 is re-sent once after one
\* re-authentication; it never ends on the 401 of its first attempt.
C2_RetryOnceOn401 ==
    \A p \in Callers :
        (/\ op[p] = "_request"
         /\ pc[p] \in Terminal
         /\ LastStep(loc[p].steps) = "send"
         /\ loc[p].status = 401)
        => /\ Count(loc[p].steps, "send") = 2
           /\ Count(loc[p].steps, "post") = 1

\* C3: every authenticated call to the Pear API is sent only after
\* ensure_authenticated() returned for it, with Authorization = 'Bearer ' +
\* the token the session holds when the call is sent.
C3_EnsuredBeforeSend ==
    \A p \in Callers :
        "send" \in {loc[p].steps[i] : i \in 1..Len(loc[p].steps)} =>
            /\ loc[p].ensured
            /\ loc[p].sessAtSend # NoToken
            /\ loc[p].hdr = [scheme |-> "Bearer", token |-> loc[p].sessAtSend]

\* C4: a request the shared session sends for the server's configured wallet
\* carries a token that a login for that wallet's address returned.
C4_TokenOfOwnWallet ==
    \A p \in Callers :
        (op[p] = "_request" /\ wallet_address # "none" /\ LastStep(loc[p].steps) = "send") =>
            loc[p].hdr.token.address = wallet_address

\* C5: a trade-placing call is sent to the Pear API only while the agent
\* wallet status the remote reports is ACTIVE.
C5_TradeOnlyWhenActive ==
    \A p \in Callers :
        (arg[p].endpoint \in TradeEndpoints /\ LastStep(loc[p].steps) = "send") =>
            agentStatus = "ACTIVE"

\* C6: ensure_authenticated() with a token stored returns that token at once
\* with no remote call; with no token it runs fetch, sign, post once; a call
\* that follows a call which logged in from the unauthenticated state makes
\* no login of its own and returns the same token.
C6_EnsureIdempotent ==
    \A p \in Callers :
        op[p] = "ensure_authenticated" =>
            /\ loc[p].sessAtStart # NoToken =>
                   /\ pc[p] = "returned"
                   /\ loc[p].steps = <<>>
                   /\ loc[p].ret = loc[p].sessAtStart
            /\ loc[p].sessAtStart = NoToken =>
                   /\ IsPrefix(loc[p].steps, <<"fetch", "sign", "post">>)
                   /\ pc[p] = "returned" =>
                          /\ loc[p].steps = <<"fetch", "sign", "post">>
                          /\ loc[p].stored
                          /\ loc[p].ret \in tokens
            /\ \A q \in Callers \ {p} :
                   (/\ op[q] = "ensure_authenticated"
                    /\ pc[p] = "returned"
                    /\ loc[p].sessAtStart = NoToken
                    /\ loc[q].sessAtStart = loc[p].ret)
                   => /\ Count(loc[p].steps, "post") + Count(loc[q].steps, "post") = 1
                      /\ loc[q].ret = loc[p].ret

\* two consecutive ensure_authenticated() calls, the first from the
\* unauthenticated state, both returned
C6_Witness ==
    \E p, q \in Callers :
        /\ p # q
        /\ op[p] = "ensure_authenticated" /\ op[q] = "ensure_authenticated"
        /\ pc[p] = "returned" /\ pc[q] = "returned"
        /\ loc[p].sessAtStart = NoToken /\ loc[p].stored
        /\ loc[q].sessAtStart = loc[p].ret

\* a call of the auth service that ended on a failed challenge fetch or a
\* failed login (transport error or non-2xx answer) while no other call
\* changed the session
AuthCallFailed(p) ==
    /\ op[p] \in {"ensure_authenticated", "authenticate", "login", "login_with_signature",
                  "_request"}
    /\ pc[p] = "raised"
    /\ LastStep(loc[p].steps) \in {"fetch", "post"}
    /\ loc[p].status \in {0, 401, 500}
    /\ loc[p].sessAtRaise = loc[p].sessAtStart

\* C7: a failed challenge fetch or login raises one ExternalServiceError
\* naming the service and carrying the raw error text, and leaves the session
\* without a token (unauthenticated, or challenged with a pending challenge).
C7_FailureLeavesNoPartialState ==
    \A p \in Callers :
        AuthCallFailed(p) =>
            /\ loc[p].err.kind = "ExternalServiceError"
            /\ loc[p].err.service = "Pear Protocol"
            /\ loc[p].err.raw = RawText(loc[p].status)
            /\ loc[p].sessAtRaise = NoToken

\* the operations that run login()
LoginOps == {"ensure_authenticated", "authenticate", "login", "login_with_signature",
             "_request", "authenticate_wallet"}

\* C8: one login() sends at most one POST /auth/login; rejected with 4xx it
\* ends with the error, has stored no token and sent nothing after the post.
C8_NoSilentRetry ==
    \A p \in Callers :
        op[p] \in LoginOps =>
            /\ Count(loc[p].steps, "post") <= 1
            /\ loc[p].rejected =>
                   /\ pc[p] = IF op[p] = "authenticate_wallet" THEN "returned" ELSE "raised"
                   /\ loc[p].err.kind = "ExternalServiceError"
                   /\ ~loc[p].stored
                   /\ loc[p].ret = NoToken
                   /\ LastStep(loc[p].steps) = "post"
                   /\ Count(loc[p].steps, "fetch") <= 1

\* login() given a signature made over another timestamp than the one it
\* posts, rejected by the remote
C8_Witness ==
    \E p \in Callers :
        /\ op[p] = "login"
        /\ arg[p].signature # NoSig
        /\ loc[p].rejected
        /\ loc[p].status = 401
        /\ loc[p].postedTs # arg[p].signature.msg.timestamp

\* authenticate(), or login() called without a signature
FetchesItself(p) ==
    \/ op[p] \in {"ensure_authenticated", "authenticate", "_request"}
    \/ op[p] = "login" /\ arg[p].signature = NoSig

\* C9: authenticate() and login() without a signature run fetch, sign, post
\* once each in that order, and the timestamp posted is the timestamp of the
\* message of the challenge fetched and signed in that call.
C9_TimestampEchoed ==
    \A p \in Callers :
        FetchesItself(p) =>
            /\ IsPrefix(AuthSteps(loc[p].steps), <<"fetch", "sign", "post">>)
            /\ Count(loc[p].steps, "post") = 1 =>
                   /\ loc[p].chal \in issued
                   /\ loc[p].sig = SignTyped(private_key, loc[p].chal)
                   /\ loc[p].postedTs = loc[p].chal.timestamp

\* an authenticate() and a login() without signature that both logged in
C9_Witness ==
    \E p, q \in Callers :
        /\ op[p] = "authenticate" /\ loc[p].stored
        /\ op[q] = "login" /\ arg[q].signature = NoSig /\ loc[q].stored
        /\ loc[q].chal # loc[p].chal

\* C10: approveAgent is submitted only after an extraAgents query that did
\* not list the agent address; when the address is listed no write is made
\* and the step reports already approved.
C10_ApproveOnlyIfNotListed ==
    \A r \in Runs :
        /\ Count(hloc[r].steps, "approve") > 0 =>
               /\ hloc[r].steps[1] = "query"
               /\ hloc[r].queried
               /\ ~hloc[r].exact
        /\ hloc[r].exact =>
               /\ Count(hloc[r].steps, "approve") = 0
               /\ hloc[r].result = "already_approved"

\* C11: approveBuilderFee is submitted only after a maxBuilderFee query that
\* returned no fee or "0"; with a fee already approved no write is sent.
C11_FeeApproveOnlyIfNotApproved ==
    \A r \in Runs :
        Count(hloc[r].steps, "fee_approve") > 0 =>
            /\ hloc[r].steps = <<"fee_query", "fee_approve">>
            /\ hloc[r].queried
            /\ hloc[r].feeSeen \in {"none", "0"}

StepBefore(s, a, b) ==
    \E i, j \in 1..Len(s) : i < j /\ s[i] = a /\ s[j] = b

\* C12: a setup flow attempts agent approval only with an agent address
\* obtained from Pear, builder-fee approval only after its agent approval
\* succeeded, and the trade only after both approvals succeeded.
C12_SetupOrder ==
    \A r \in Runs :
        LET l == floc[r] IN
        /\ Count(l.steps, "approve_agent") > 0 => l.agent # "none"
        /\ Count(l.steps, "approve_fee") > 0 =>
              StepBefore(l.steps, "approve_agent", "approve_fee") /\ l.agentOk
        /\ Count(l.steps, "trade") > 0 => l.agentOk /\ l.feeOk

\* C13: the result a finished setup flow hands back reports each step's own
\* outcome: an approval is reported only if that approval succeeded, and the
\* steps reported are exactly the steps that succeeded, also after a failure.
C13_ReportsOwnOutcomes ==
    \A r \in Runs :
        LET l == floc[r] IN
        /\ (fpc[r] = "done" /\ l.flow = "setup_pear_protocol") =>
              /\ l.report.builder_fee_approved => l.feeOk
              /\ l.report.agent_wallet_approved => l.agentOk
              /\ l.report.success => (l.feeOk /\ l.agentOk)
        /\ (fpc[r] = "done" /\ l.flow = "setup_agent_wallet") =>
              l.report.steps = IF l.report.status = "error"
                               THEN SubSeq(l.steps, 1, Len(l.steps) - 1)
                               ELSE l.steps

\* C14: create_agent_wallet called while Pear holds a live agent wallet for
\* the session answers without error, with that wallet's address, and no
\* further wallet is created.
C14_CreateIdempotent ==
    \A r \in Runs :
        LET l == floc[r] IN
        (/\ fpc[r] = "done"
         /\ l.flow = "create_agent_wallet"
         /\ l.existing # "none"
         /\ l.status \in {"PENDING_APPROVAL", "ACTIVE"}) =>
            /\ l.report.http = 200
            /\ l.report.agent_wallet_address = l.existing
            /\ l.created = 0

\* C15: setup_agent_wallet sends POST /agentWallet only after its authenticate
\* succeeded and its get_agent_wallet returned NOT_FOUND or EXPIRED; on ACTIVE
\* or PENDING_APPROVAL it sends none and reports the existing wallet's address.
C15_CreateOnlyWhenMissing ==
    \A r \in Runs :
        LET l == floc[r] IN
        l.flow = "setup_agent_wallet" =>
            /\ Count(l.steps, "create_wallet") > 0 =>
                  /\ l.steps = <<"authenticate", "check_status", "create_wallet">>
                  /\ IsPrefix(<<"authenticate", "check_status">>, l.report.steps)
                  /\ l.status \in {"NOT_FOUND", "EXPIRED"}
            /\ (fpc[r] = "done" /\ l.status \in {"ACTIVE", "PENDING_APPROVAL"}) =>
                  /\ Count(l.steps, "create_wallet") = 0
                  /\ l.report.http = 200
                  /\ l.report.agent_wallet_address = l.existing

\* one run created a wallet after NOT_FOUND or EXPIRED, another found the
\* wallet ACTIVE or PENDING_APPROVAL and reported it
C15_Witness ==
    \E r1, r2 \in Runs :
        /\ fpc[r1] = "done" /\ fpc[r2] = "done"
        /\ floc[r1].flow = "setup_agent_wallet"
        /\ floc[r1].report.status = "created"
        /\ Count(floc[r1].steps, "create_wallet") = 1
        /\ floc[r2].flow = "setup_agent_wallet"
        /\ floc[r2].report.status \in {"ready", "pending_approval"}
        /\ floc[r2].report.agent_wallet_address # "none"

\* the answer is a 200 JSON object with at least one key
IsObject(h) == h.status_code = 200 /\ h.body = "object" /\ DOMAIN h.json # {}
HasAddress(d) == \E f \in AddressFields : Truthy(Get(d, f))
NoAddressReturned(w) ==
    w.agentWalletAddress = "none" /\ w.agentAddress = "none" /\ w.address = "none"

\* C16: an empty JSON object, a body without content, or a 204 makes
\* get_agent_wallet return NOT_FOUND with no address, without raising.
C16_EmptyIsNotFound ==
    (/\ gw.called
     /\ \/ http.status_code = 204
        \/ http.status_code = 200 /\ http.body = "empty"
        \/ http.status_code = 200 /\ http.body = "object" /\ DOMAIN http.json = {}) =>
        /\ ~gw.result.raised
        /\ gw.result.status = "NOT_FOUND"
        /\ NoAddressReturned(gw.result)

C16_Witness ==
    /\ gw.called
    /\ http.status_code = 204
    /\ gw.result.status = "NOT_FOUND"

\* C17: an object with an address under any of the three fields and no (or
\* a null) status gives PENDING_APPROVAL; one with neither gives NOT_FOUND.
C17_AddressWithoutStatus ==
    (gw.called /\ IsObject(http) /\ Get(http.json, "status") = "none") =>
        /\ ~gw.result.raised
        /\ gw.result.status = IF HasAddress(http.json) THEN "PENDING_APPROVAL"
                              ELSE "NOT_FOUND"
        /\ HasAddress(http.json) => wallet_address_of(gw.result) \in {"0xab", "0xcd"}

C17_Witness ==
    /\ gw.called
    /\ IsObject(http)
    /\ "status" \notin DOMAIN http.json
    /\ Get(http.json, "agentWalletAddress") = "none"
    /\ Get(http.json, "agentAddress") = "0xcd"
    /\ gw.result.status = "PENDING_APPROVAL"

\* C18: a status string outside the enum raises nothing and gives
\* PENDING_APPROVAL with an address, NOT_FOUND without; whatever the answer,
\* a returned status is one of the four enum values.
C18_UnknownStatusFallback ==
    /\ (/\ gw.called /\ IsObject(http)
        /\ Truthy(Get(http.json, "status"))
        /\ Get(http.json, "status") \notin AgentWalletStatus) =>
           /\ ~gw.result.raised
           /\ gw.result.status = IF HasAddress(http.json) THEN "PENDING_APPROVAL"
                                 ELSE "NOT_FOUND"
    /\ (gw.called /\ ~gw.result.raised) => gw.result.status \in AgentWalletStatus

C18_Witness ==
    /\ gw.called
    /\ IsObject(http)
    /\ Get(http.json, "status") = "UNKNOWN"
    /\ HasAddress(http.json)
    /\ gw.result.status = "PENDING_APPROVAL"

\* C19: the types mapping handed to the encoder has no EIP712Domain key and
\* otherwise the keys and values of the challenge's types; domain and
\* message are handed over as they are.
C19_EncoderInput ==
    sg.out.encoded =>
        LET given == sg.out.handed.message_types
            types == sg.orig.types IN
        /\ "EIP712Domain" \notin DOMAIN given
        /\ DOMAIN given = DOMAIN types \ {"EIP712Domain"}
        /\ \A k \in DOMAIN given : given[k] = types[k]
        /\ sg.out.handed.domain_data = sg.orig.domain
        /\ sg.out.handed.message_data = sg.orig.message

C19_Witness ==
    /\ sg.op = "sign"
    /\ sg.out.encoded
    /\ DOMAIN sg.orig.types = TypeNames
    /\ DOMAIN sg.out.handed.message_types = {"Authentication", "Extra"}

C21_SigningFailsTyped ==
    LET key == IF sg.op = "sign" THEN sg.key0 ELSE sg.key IN
    (/\ sg.op # "none"
     /\ \/ key = "bad"
        \/ ~(DataKeys \subseteq sg.orig.present)) =>
        /\ sg.out.raised = "ExternalServiceError"
        /\ sg.out.signature.signer = "none"

\* the EIP-712 digest a standard verifier computes from a challenge: the
\* domain separator from the domain, the struct hash from the message and the
\* message types; the EIP712Domain entry of types is not a message type
eip712_hash(d) ==
    [domain_data |-> d.domain,
     message_types |-> [k \in DOMAIN d.types \ {"EIP712Domain"} |-> d.types[k]],
     message_data |-> d.message]

\* standard recovery: the signer when the signature is over the digest of
\* this challenge, an unrelated address otherwise
recover(d, signature) ==
    IF signature.over = eip712_hash(d) THEN signature.signer ELSE "unrelated"

C22_ErrorStatusMapping ==
    (/\ rs.handled
     /\ rq.endpoint \in OpenEndpoints \ {"POST /agent-wallet/approve"}
     /\ rq.failure # "none") =>
        /\ rs.status = IF rq.failure = "rejected" THEN 401
                       ELSE IF rq.failure = "external" THEN 502
                       ELSE 400
        /\ {"error_code", "message"} \subseteq rs.keys

\* C23: POST /agent-wallet/approve answers requires_client_side_approval with
\* agent address, agent name and instructions, and answers "approved" only
\* if an approval was submitted to Hyperliquid.
C23_ApproveIsActionable ==
    (rs.handled /\ rq.endpoint = "POST /agent-wallet/approve") =>
        /\ rs.answer = "approved" => rs.submitted
        /\ ~rs.submitted =>
              /\ rs.status = 200
              /\ rs.answer = "requires_client_side_approval"
              /\ {"agent_address", "agent_name", "instructions"} \subseteq rs.keys

C23_Witness ==
    /\ rs.handled
    /\ rq.endpoint = "POST /agent-wallet/approve"
    /\ rs.answer = "requires_client_side_approval"

\* C24: without bearer credentials GET /agent-wallet, POST /agent-wallet,
\* GET /pairs/positions and GET /buckets answer 401 or 403 and the service
\* method is not called.
C24_RejectedWithoutCredentials ==
    (/\ rs.handled
     /\ rq.bearer = "none"
     /\ rq.endpoint \in {"GET /agent-wallet", "POST /agent-wallet",
                         "GET /pairs/positions", "GET /buckets"}) =>
        /\ rs.status \in {401, 403}
        /\ ~rs.called

\* C27: a _request that is awaiting its response sent it on the client its
\* own _refresh_client made; no other request has called aclose() on that
\* client while the response is awaited.
C27_NoInFlightClientClosed ==
    \A p \in Callers :
        (pc[p] = "http_wait" /\ op[p] = "_request" /\ client.maker = p) =>
            ~client.closed

\* C28: get_agent_wallet answers NOT_FOUND for a failed GET /agentWallet only
\* when the HTTP status is 404; a failure with any other status is raised as
\* the service error whatever text the error body carries.
C28_NotFoundOnlyOn404 ==
    (gw.called /\ http.status_code >= 400) =>
        IF http.status_code = 404
        THEN ~gw.result.raised /\ gw.result.status = "NOT_FOUND"
        ELSE gw.result.raised

\* C26: between any two users there is at most one row of the friends table,
\* whatever its status and whoever of the two asked.
C26_OneRowPerPair ==
    \A f \in friends, g \in friends :
        ({f.requester_id, f.addressee_id} = {g.requester_id, g.addressee_id}) => f = g

C30_CachedForTtl ==
    \A s \in InstrumentSources :
        (ir.seen[s].asked /\ ir.seen[s].had) =>
            IF ir.seen[s].age < CACHE_TTL_SECONDS
            THEN ~ir.seen[s].fetched
            ELSE /\ ir.seen[s].fetched
                 /\ _instruments_cache[s].cached_at = ir.at

====
